---------------------------- MODULE Spec2Model ----------------------------
(***************************************************************************)
(* A model of the decision engine of python-chess-engine: the static       *)
(* evaluator (src/evaluation.py), move ordering, quiescence search,        *)
(* minimax search with alpha-beta pruning, the root search and the         *)
(* iterative-deepening driver (src/engine.py), over a model of the rules   *)
(* engine (the python-chess Board) that the code calls.                    *)
(***************************************************************************)
EXTENDS Integers, Sequences, FiniteSets, TLC

(***************************************************************************)
(* Part 1.  The rules engine (python-chess), as far as the code uses it.   *)
(***************************************************************************)

\* chess.PAWN .. chess.KING, chess.WHITE / chess.BLACK
PAWN == 1
KNIGHT == 2
BISHOP == 3
ROOK == 4
QUEEN == 5
KING == 6
WHITE == TRUE
BLACK == FALSE

\* None, for a square (ep_square) and for a promotion piece type
NoSquare == 0 - 1
NoPromotion == 0

Squares == 0 .. 63

square(file_index, rank_index) == rank_index * 8 + file_index
square_file(s) == s % 8
square_rank(s) == s \div 8

Abs(x) == IF x < 0 THEN 0 - x ELSE x
Sgn(x) == IF x < 0 THEN 0 - 1 ELSE IF x > 0 THEN 1 ELSE 0
Max(a, b) == IF a >= b THEN a ELSE b
Min(a, b) == IF a <= b THEN a ELSE b

\* A local variable: the value an expression has is given a name in what
\* follows, as in  name = expression
With(value, Rest(_)) == Rest(value)

\* chess.Piece(piece_type, color)
Piece(pt, c) == [piece_type |-> pt, color |-> c]

\* chess.Move(from_square, to_square, promotion); Move.null() is 0000
Move(f, t, p) == [from_square |-> f, to_square |-> t, promotion |-> p]
NullMove == Move(0, 0, NoPromotion)

\* The part of a Board that push saves and pop restores.
BoardState(b) ==
    [pcs |-> b.pcs, turn |-> b.turn, castling_rights |-> b.castling_rights,
     ep_square |-> b.ep_square, halfmove_clock |-> b.halfmove_clock]

\* board.piece_at(square) is not None
occupied(b, s) == s \in DOMAIN b.pcs

\* The squares holding a piece of the colour
occupied_co(b, c) == {s \in DOMAIN b.pcs : b.pcs[s].color = c}

\* board.pieces(piece_type, color)
pieces(b, pt, c) == {s \in DOMAIN b.pcs : b.pcs[s] = Piece(pt, c)}

\* board.king(color): the king's square, or None
king(b, c) ==
    LET ks == pieces(b, KING, c)
    IN  IF ks = {} THEN NoSquare ELSE CHOOSE s \in ks : \A t \in ks : t <= s

\* The squares strictly between two squares of one rank, file or diagonal
between(s, t) ==
    LET df == square_file(t) - square_file(s)
        dr == square_rank(t) - square_rank(s)
        n  == Max(Abs(df), Abs(dr))
    IN  {square(square_file(s) + k * Sgn(df), square_rank(s) + k * Sgn(dr)) :
            k \in 1 .. (n - 1)}

\* Whether the piece on s attacks t (board.attacks_mask(s) holds t)
attacks(b, s, t) ==
    LET p  == b.pcs[s]
        df == square_file(t) - square_file(s)
        dr == square_rank(t) - square_rank(s)
        clear == between(s, t) \cap DOMAIN b.pcs = {}
        diag == Abs(df) = Abs(dr) /\ df # 0
        line == (df = 0) # (dr = 0)
    IN  CASE p.piece_type = PAWN ->
               Abs(df) = 1 /\ dr = (IF p.color = WHITE THEN 1 ELSE 0 - 1)
          [] p.piece_type = KNIGHT ->
               (Abs(df) = 1 /\ Abs(dr) = 2) \/ (Abs(df) = 2 /\ Abs(dr) = 1)
          [] p.piece_type = KING ->
               Max(Abs(df), Abs(dr)) = 1
          [] p.piece_type = BISHOP -> diag /\ clear
          [] p.piece_type = ROOK -> line /\ clear
          [] OTHER -> (diag \/ line) /\ clear

\* board.is_attacked_by(color, square)
is_attacked_by(b, c, t) ==
    \E s \in DOMAIN b.pcs : b.pcs[s].color = c /\ attacks(b, s, t)

\* board.is_check(): the king of the side to move is attacked
is_check(b) ==
    LET k == king(b, b.turn)
    IN  k # NoSquare /\ is_attacked_by(b, ~b.turn, k)

\* board.is_en_passant(move)
is_en_passant(b, m) ==
    /\ b.ep_square = m.to_square
    /\ occupied(b, m.from_square)
    /\ b.pcs[m.from_square].piece_type = PAWN
    /\ Abs(m.to_square - m.from_square) \in {7, 9}
    /\ ~occupied(b, m.to_square)

\* board.is_castling(move): the king moves two files
is_castling(b, m) ==
    /\ occupied(b, m.from_square)
    /\ b.pcs[m.from_square].piece_type = KING
    /\ Abs(square_file(m.from_square) - square_file(m.to_square)) > 1

\* board.is_capture(move)
is_capture(b, m) ==
    \/ (occupied(b, m.to_square) /\ b.pcs[m.to_square].color # b.turn)
    \/ is_en_passant(b, m)

\* The placement after the move (castling moves the rook, en passant removes
\* the pawn behind the target, a promotion replaces the pawn)
PlacementAfter(b, m) ==
    LET p     == b.pcs[m.from_square]
        moved == IF m.promotion # NoPromotion
                 THEN Piece(m.promotion, p.color) ELSE p
        epVictim == IF is_en_passant(b, m)
                    THEN {m.to_square + (IF b.turn = WHITE THEN 0 - 8 ELSE 8)}
                    ELSE {}
        castle == is_castling(b, m)
        kingSide == square_file(m.to_square) > square_file(m.from_square)
        rookFrom == square(IF kingSide THEN 7 ELSE 0, square_rank(m.from_square))
        rookTo   == square(IF kingSide THEN 5 ELSE 3, square_rank(m.from_square))
        gone == {m.from_square} \cup epVictim \cup (IF castle THEN {rookFrom} ELSE {})
        dom  == ((DOMAIN b.pcs) \ gone) \cup {m.to_square}
                    \cup (IF castle THEN {rookTo} ELSE {})
    IN  [s \in dom |->
            IF s = m.to_square THEN moved
            ELSE IF castle /\ s = rookTo THEN Piece(ROOK, p.color)
            ELSE b.pcs[s]]

\* The rook squares of the back ranks (castling_rights is a set of them)
A1 == 0
H1 == 7
A8 == 56
H8 == 63
E1 == 4
E8 == 60

\* board.push(move)
push(b, m) ==
    LET entry == [move |-> m, state |-> BoardState(b)]
    IN  IF m = NullMove
        THEN [pcs |-> b.pcs, turn |-> ~b.turn,
              castling_rights |-> b.castling_rights,
              ep_square |-> NoSquare,
              halfmove_clock |-> b.halfmove_clock + 1,
              stack |-> Append(b.stack, entry)]
        ELSE
        LET p == b.pcs[m.from_square]
            zeroing == p.piece_type = PAWN \/ is_capture(b, m)
            double == p.piece_type = PAWN /\ Abs(m.to_square - m.from_square) = 16
            backrank == IF p.color = WHITE THEN {A1, H1} ELSE {A8, H8}
            lost == {m.from_square, m.to_square}
                       \cup (IF p.piece_type = KING THEN backrank ELSE {})
        IN  [pcs |-> PlacementAfter(b, m), turn |-> ~b.turn,
             castling_rights |-> b.castling_rights \ lost,
             ep_square |-> IF double THEN (m.from_square + m.to_square) \div 2
                           ELSE NoSquare,
             halfmove_clock |-> IF zeroing THEN 0 ELSE b.halfmove_clock + 1,
             stack |-> Append(b.stack, entry)]

\* board.pop(): restores the state saved by the last push
pop(b) ==
    LET e == b.stack[Len(b.stack)]
    IN  [pcs |-> e.state.pcs, turn |-> e.state.turn,
         castling_rights |-> e.state.castling_rights,
         ep_square |-> e.state.ep_square,
         halfmove_clock |-> e.state.halfmove_clock,
         stack |-> SubSeq(b.stack, 1, Len(b.stack) - 1)]

\* Whether the mover's king is safe after the move
is_safe(b, m) ==
    LET after == [b EXCEPT !.pcs = PlacementAfter(b, m)]
        k == king(after, b.turn)
    IN  k = NoSquare \/ ~is_attacked_by(after, ~b.turn, k)

PromotionTypes == {QUEEN, ROOK, BISHOP, KNIGHT}

\* The pseudo-legal moves of the piece on s
PieceMoves(b, s) ==
    LET p == b.pcs[s]
        c == p.color
        up == IF c = WHITE THEN 8 ELSE 0 - 8
        startRank == IF c = WHITE THEN 1 ELSE 6
        lastRank  == IF c = WHITE THEN 7 ELSE 0
        withPromotion(t) ==
            IF square_rank(t) = lastRank
            THEN {Move(s, t, q) : q \in PromotionTypes}
            ELSE {Move(s, t, NoPromotion)}
        one == s + up
        two == s + 2 * up
        pushes ==
            IF one \in Squares /\ ~occupied(b, one)
            THEN {one} \cup (IF square_rank(s) = startRank /\ ~occupied(b, two)
                             THEN {two} ELSE {})
            ELSE {}
        captures ==
            {t \in Squares : /\ attacks(b, s, t)
                             /\ \/ (occupied(b, t) /\ b.pcs[t].color # c)
                                \/ t = b.ep_square}
    IN  IF p.piece_type = PAWN
        THEN UNION {withPromotion(t) : t \in pushes \cup captures}
        ELSE {Move(s, t, NoPromotion) :
                t \in {u \in Squares : /\ attacks(b, s, u)
                                       /\ ~(occupied(b, u) /\ b.pcs[u].color = c)}}

\* board.generate_castling_moves(): king and rook unmoved, the squares between
\* empty, the king neither in check nor crossing an attacked square
CastlingMoves(b) ==
    LET c == b.turn
        r == IF c = WHITE THEN 0 ELSE 7
        k == square(4, r)
        ok(rook, path, empty) ==
            /\ rook \in b.castling_rights
            /\ occupied(b, k) /\ b.pcs[k] = Piece(KING, c)
            /\ occupied(b, rook) /\ b.pcs[rook] = Piece(ROOK, c)
            /\ \A s \in empty : ~occupied(b, s)
            /\ \A s \in path \cup {k} : ~is_attacked_by(b, ~c, s)
    IN  (IF ok(square(7, r), {square(5, r), square(6, r)},
               {square(5, r), square(6, r)})
         THEN {Move(k, square(6, r), NoPromotion)} ELSE {})
        \cup
        (IF ok(square(0, r), {square(3, r), square(2, r)},
               {square(1, r), square(2, r), square(3, r)})
         THEN {Move(k, square(2, r), NoPromotion)} ELSE {})

\* The set of legal moves of the side to move
LegalMoveSet(b) ==
    {m \in UNION {PieceMoves(b, s) : s \in occupied_co(b, b.turn)} : is_safe(b, m)}
        \cup CastlingMoves(b)

\* The place of a move in the order in which board.legal_moves yields the moves:
\* when in check the king's moves first; piece moves by from and to square,
\* highest first; castling; pawn captures; single and double advances; en passant
GenerationKey(b, m, inCheck) ==
    LET p == b.pcs[m.from_square]
        promo == CASE m.promotion = QUEEN -> 0 [] m.promotion = ROOK -> 1
                   [] m.promotion = BISHOP -> 2 [] m.promotion = KNIGHT -> 3
                   [] OTHER -> 0
        class ==
            CASE is_castling(b, m) -> 2
              [] p.piece_type = KING -> IF inCheck THEN 0 ELSE 1
              [] p.piece_type # PAWN -> 1
              [] is_en_passant(b, m) -> 6
              [] is_capture(b, m) -> 3
              [] Abs(m.to_square - m.from_square) = 16 -> 5
              [] OTHER -> 4
        first == IF class \in {4, 5} THEN m.to_square ELSE m.from_square
    IN  class * 100000 + (63 - first) * 1000 + (63 - m.to_square) * 10 + promo

\* list(board.legal_moves): the legal moves in generation order
legal_moves(b) ==
    With({<<GenerationKey(b, m, is_check(b)), m>> : m \in LegalMoveSet(b)}, LAMBDA keyed :
    With({<<Cardinality({q \in keyed : q[1] < p[1]}) + 1, p[2]>> : p \in keyed},
         LAMBDA ranked :
      [i \in 1 .. Cardinality(keyed) |-> (CHOOSE r \in ranked : r[1] = i)[2]]))

\* board.gives_check(move)
gives_check(b, m) == is_check(push(b, m))


\* board.is_checkmate(), board.is_stalemate()
is_checkmate(b) == is_check(b) /\ LegalMoveSet(b) = {}
is_stalemate(b) == ~is_check(b) /\ LegalMoveSet(b) = {}

\* board.has_insufficient_material(color)
has_insufficient_material(b, c) ==
    LET mine == occupied_co(b, c)
        has(S, types) == \E s \in S : b.pcs[s].piece_type \in types
        bishops == {s \in DOMAIN b.pcs : b.pcs[s].piece_type = BISHOP}
        dark(s) == (square_file(s) + square_rank(s)) % 2 = 0
        sameColour == (\A s \in bishops : dark(s)) \/ (\A s \in bishops : ~dark(s))
    IN  IF has(mine, {PAWN, ROOK, QUEEN}) THEN FALSE
        ELSE IF has(mine, {KNIGHT})
        THEN Cardinality(mine) <= 2
             /\ ~has(occupied_co(b, ~c), {PAWN, KNIGHT, BISHOP, ROOK})
        ELSE IF has(mine, {BISHOP})
        THEN sameColour /\ ~has(DOMAIN b.pcs, {PAWN, KNIGHT})
        ELSE TRUE

\* board.is_insufficient_material()
is_insufficient_material(b) ==
    has_insufficient_material(b, WHITE) /\ has_insufficient_material(b, BLACK)

\* board.clean_castling_rights(): a right counts while king and rook stand
\* on their original squares
clean_castling_rights(b) ==
    {r \in b.castling_rights :
        LET c == (r \in {A1, H1})
            k == IF c THEN E1 ELSE E8
        IN  /\ occupied(b, r) /\ b.pcs[r] = Piece(ROOK, c)
            /\ occupied(b, k) /\ b.pcs[k] = Piece(KING, c)}

has_kingside_castling_rights(b, c) ==
    (IF c = WHITE THEN H1 ELSE H8) \in clean_castling_rights(b)
has_queenside_castling_rights(b, c) ==
    (IF c = WHITE THEN A1 ELSE A8) \in clean_castling_rights(b)
has_castling_rights(b, c) ==
    has_kingside_castling_rights(b, c) \/ has_queenside_castling_rights(b, c)

\* board.has_legal_en_passant()
has_legal_en_passant(b) ==
    b.ep_square # NoSquare /\ \E m \in LegalMoveSet(b) : is_en_passant(b, m)

\* A saved state shows the position b: same placement, side to move,
\* castling rights and en passant possibility
SamePosition(st, b) ==
    /\ st.pcs = b.pcs
    /\ st.turn = b.turn
    /\ clean_castling_rights(st) = clean_castling_rights(b)
    /\ (IF has_legal_en_passant(st) THEN st.ep_square ELSE NoSquare)
         = (IF has_legal_en_passant(b) THEN b.ep_square ELSE NoSquare)

\* board.is_repetition(count): the position has occurred count times
is_repetition(b, count) ==
    Cardinality({i \in 1 .. Len(b.stack) : SamePosition(b.stack[i].state, b)})
        >= count - 1

\* board.is_game_over()
is_game_over(b) ==
    \/ is_checkmate(b)
    \/ is_insufficient_material(b)
    \/ LegalMoveSet(b) = {}
    \/ b.halfmove_clock >= 150
    \/ is_repetition(b, 5)

(***************************************************************************)
(* Part 2.  Configuration and the evaluator (src/config.py,                *)
(* src/evaluation.py).                                                     *)
(***************************************************************************)

PAWN_VALUE == 100
KNIGHT_VALUE == 320
BISHOP_VALUE == 330
ROOK_VALUE == 500
QUEEN_VALUE == 900
KING_VALUE == 20000

\* config.PAWN_PST (squares A1 .. H8 are indices 0 .. 63)
PAWN_PST ==
  <<
    0, 0, 0, 0, 0, 0, 0, 0,
    50, 50, 50, 50, 50, 50, 50, 50,
    10, 10, 20, 30, 30, 20, 10, 10,
    5, 5, 10, 25, 25, 10, 5, 5,
    0, 0, 0, 20, 20, 0, 0, 0,
    5, -5, -10, 0, 0, -10, -5, 5,
    5, 10, 10, -20, -20, 10, 10, 5,
    0, 0, 0, 0, 0, 0, 0, 0
  >>

\* config.KNIGHT_PST (squares A1 .. H8 are indices 0 .. 63)
KNIGHT_PST ==
  <<
    -50, -40, -30, -30, -30, -30, -40, -50,
    -40, -20, 0, 0, 0, 0, -20, -40,
    -30, 0, 10, 15, 15, 10, 0, -30,
    -30, 5, 15, 20, 20, 15, 5, -30,
    -30, 0, 15, 20, 20, 15, 0, -30,
    -30, 5, 10, 15, 15, 10, 5, -30,
    -40, -20, 0, 5, 5, 0, -20, -40,
    -50, -40, -30, -30, -30, -30, -40, -50
  >>

\* config.BISHOP_PST (squares A1 .. H8 are indices 0 .. 63)
BISHOP_PST ==
  <<
    -20, -10, -10, -10, -10, -10, -10, -20,
    -10, 0, 0, 0, 0, 0, 0, -10,
    -10, 0, 5, 10, 10, 5, 0, -10,
    -10, 5, 5, 10, 10, 5, 5, -10,
    -10, 0, 10, 10, 10, 10, 0, -10,
    -10, 10, 10, 10, 10, 10, 10, -10,
    -10, 5, 0, 0, 0, 0, 5, -10,
    -20, -10, -10, -10, -10, -10, -10, -20
  >>

\* config.ROOK_PST (squares A1 .. H8 are indices 0 .. 63)
ROOK_PST ==
  <<
    0, 0, 0, 0, 0, 0, 0, 0,
    5, 10, 10, 10, 10, 10, 10, 5,
    -5, 0, 0, 0, 0, 0, 0, -5,
    -5, 0, 0, 0, 0, 0, 0, -5,
    -5, 0, 0, 0, 0, 0, 0, -5,
    -5, 0, 0, 0, 0, 0, 0, -5,
    -5, 0, 0, 0, 0, 0, 0, -5,
    0, 0, 0, 5, 5, 0, 0, 0
  >>

\* config.QUEEN_PST (squares A1 .. H8 are indices 0 .. 63)
QUEEN_PST ==
  <<
    -20, -10, -10, -5, -5, -10, -10, -20,
    -10, 0, 0, 0, 0, 0, 0, -10,
    -10, 0, 5, 5, 5, 5, 0, -10,
    -5, 0, 5, 5, 5, 5, 0, -5,
    0, 0, 5, 5, 5, 5, 0, -5,
    -10, 5, 5, 5, 5, 5, 0, -10,
    -10, 0, 5, 0, 0, 0, 0, -10,
    -20, -10, -10, -5, -5, -10, -10, -20
  >>

\* config.KING_PST (squares A1 .. H8 are indices 0 .. 63)
KING_PST ==
  <<
    -30, -40, -40, -50, -50, -40, -40, -30,
    -30, -40, -40, -50, -50, -40, -40, -30,
    -30, -40, -40, -50, -50, -40, -40, -30,
    -30, -40, -40, -50, -50, -40, -40, -30,
    -20, -30, -30, -40, -40, -30, -30, -20,
    -10, -20, -20, -20, -20, -20, -20, -10,
    20, 20, 0, 0, 0, 0, 20, 20,
    20, 30, 10, 0, 0, 10, 30, 20
  >>

\* config.get_black_pst: the table flipped vertically
get_black_pst(white_pst) ==
    [i \in 1 .. 64 |-> white_pst[(7 - ((i - 1) \div 8)) * 8 + ((i - 1) % 8) + 1]]

PAWN_PST_BLACK == get_black_pst(PAWN_PST)
KNIGHT_PST_BLACK == get_black_pst(KNIGHT_PST)
BISHOP_PST_BLACK == get_black_pst(BISHOP_PST)
ROOK_PST_BLACK == get_black_pst(ROOK_PST)
QUEEN_PST_BLACK == get_black_pst(QUEEN_PST)
KING_PST_BLACK == get_black_pst(KING_PST)

\* The sentinel of a lost king / a checkmate
MATE_SCORE == 999999

RECURSIVE SumOver(_, _)
SumOver(S, f) ==
    IF S = {} THEN 0
    ELSE LET x == CHOOSE y \in S : TRUE IN f[x] + SumOver(S \ {x}, f)

\* evaluation.count_material
count_material(b, color) ==
    Cardinality(pieces(b, PAWN, color)) * PAWN_VALUE
    + Cardinality(pieces(b, KNIGHT, color)) * KNIGHT_VALUE
    + Cardinality(pieces(b, BISHOP, color)) * BISHOP_VALUE
    + Cardinality(pieces(b, ROOK, color)) * ROOK_VALUE
    + Cardinality(pieces(b, QUEEN, color)) * QUEEN_VALUE

\* evaluation.evaluate_mobility: the legal moves of the side to move minus
\* those of the other side after a null move, times 10; the null move is
\* pushed and popped
evaluate_mobility(b) ==
    LET current_player_mobility == Cardinality(LegalMoveSet(b))
        probe == push(b, NullMove)
        opponent_mobility == Cardinality(LegalMoveSet(probe))
    IN  [value |-> (current_player_mobility - opponent_mobility) * 10,
         board |-> pop(probe)]

\* What board.piece_at(square) does with the index the code computes: an index
\* past 63 is out of range (IndexError), a negative one counts from the end
IndexRaises(sq) == sq > 63 \/ sq < 0 - 64
IndexWrap(sq) == IF sq < 0 THEN sq + 64 ELSE sq

\* The pawn-shield squares evaluate_king_safety looks at
ShieldSquares(b, color) ==
    LET king_square == king(b, color)
        king_file == square_file(king_square)
        king_rank == square_rank(king_square)
        ahead == IF color = WHITE THEN king_rank + 1 ELSE king_rank - 1
    IN  {square(king_file + file_offset, ahead) :
            file_offset \in {o \in {0 - 1, 0, 1} :
                               0 <= king_file + o /\ king_file + o <= 7}}

\* evaluation.evaluate_king_safety; raised when piece_at is out of range
evaluate_king_safety(b, color) ==
    IF king(b, color) = NoSquare
    THEN [raised |-> FALSE, value |-> 0 - MATE_SCORE]
    ELSE
    LET castling ==
            IF has_castling_rights(b, color)
            THEN (IF has_kingside_castling_rights(b, color) THEN 50 ELSE 0)
                 + (IF has_queenside_castling_rights(b, color) THEN 30 ELSE 0)
            ELSE 0
        shield == ShieldSquares(b, color)
        pawn_shield ==
            30 * Cardinality({s \in shield :
                    /\ occupied(b, IndexWrap(s))
                    /\ b.pcs[IndexWrap(s)] = Piece(PAWN, color)})
        check == IF is_check(b) THEN 0 - 50 ELSE 0
    IN  IF \E s \in shield : IndexRaises(s)
        THEN [raised |-> TRUE, value |-> 0]
        ELSE [raised |-> FALSE, value |-> castling + pawn_shield + check]

\* evaluation.evaluate_pawn_structure, one colour's share
PawnStructureOf(b, color) ==
    LET pawns == pieces(b, PAWN, color)
        files == [f \in 0 .. 7 |-> Cardinality({s \in pawns : square_file(s) = f})]
        doubled == [f \in 0 .. 7 |->
                      IF files[f] > 1 THEN (files[f] - 1) * (0 - 20) ELSE 0]
        has_neighbor(f) == (f > 0 /\ files[f - 1] > 0) \/ (f < 7 /\ files[f + 1] > 0)
        isolated == [f \in 0 .. 7 |->
                      IF files[f] > 0 /\ ~has_neighbor(f) THEN 0 - 15 ELSE 0]
        is_passed(s) ==
            LET ranks == IF color = WHITE THEN (square_rank(s) + 1) .. 7
                         ELSE 0 .. (square_rank(s) - 1)
            IN  \A r \in ranks :
                  \A f \in {square_file(s) - 1, square_file(s), square_file(s) + 1} :
                     (0 <= f /\ f <= 7) =>
                        ~(occupied(b, square(f, r))
                          /\ b.pcs[square(f, r)] = Piece(PAWN, ~color))
        bonus == [s \in pawns |->
                    IF is_passed(s)
                    THEN (IF color = WHITE THEN square_rank(s) - 1
                          ELSE 6 - square_rank(s)) * 20
                    ELSE 0]
    IN  SumOver(0 .. 7, doubled) + SumOver(0 .. 7, isolated) + SumOver(pawns, bonus)

\* evaluation.evaluate_pawn_structure
evaluate_pawn_structure(b) == PawnStructureOf(b, WHITE) - PawnStructureOf(b, BLACK)

E4 == 28
E5 == 36
D4 == 27
D5 == 35

\* The piece-square value of the piece on a square
PstValue(b, s) ==
    LET p == b.pcs[s]
        white_psts == <<PAWN_PST, KNIGHT_PST, BISHOP_PST, ROOK_PST, QUEEN_PST, KING_PST>>
        black_psts == <<PAWN_PST_BLACK, KNIGHT_PST_BLACK, BISHOP_PST_BLACK,
                        ROOK_PST_BLACK, QUEEN_PST_BLACK, KING_PST_BLACK>>
    IN  IF p.color = WHITE THEN white_psts[p.piece_type][s + 1]
        ELSE black_psts[p.piece_type][s + 1]

\* The sign evaluate_board gives the white-minus-black total
Perspective(b, evaluation) == IF b.turn = WHITE THEN evaluation ELSE 0 - evaluation

\* The draws without the stalemate
C10_DrawsWithoutStalemate(b) == is_insufficient_material(b) \/ is_repetition(b, 3)

\* The drawn positions evaluate_board scores 0
DrawConditions(b) ==
    is_stalemate(b) \/ is_insufficient_material(b) \/ is_repetition(b, 3)

\* evaluation.evaluate_board: [raised, value, board]; board is the board as
\* the call leaves it
evaluate_board(b) ==
    IF is_checkmate(b) THEN [raised |-> FALSE, value |-> 0 - MATE_SCORE, board |-> b]
    ELSE IF DrawConditions(b)
    THEN [raised |-> FALSE, value |-> 0, board |-> b]
    ELSE
    With(evaluate_mobility(b), LAMBDA mobility :
    With(evaluate_king_safety(b, WHITE), LAMBDA white_king_safety :
    With(evaluate_king_safety(b, BLACK), LAMBDA black_king_safety :
    LET material_balance == count_material(b, WHITE) - count_material(b, BLACK)
        white_positional ==
            SumOver(occupied_co(b, WHITE), [s \in occupied_co(b, WHITE) |-> PstValue(b, s)])
        black_positional ==
            SumOver(occupied_co(b, BLACK), [s \in occupied_co(b, BLACK) |-> PstValue(b, s)])
        positional_balance == white_positional - black_positional
        mobility_score == mobility.value
        king_safety_balance == white_king_safety.value - black_king_safety.value
        pawn_structure_score == evaluate_pawn_structure(b)
        center_squares == {E4, E5, D4, D5}
        center ==
            10 * Cardinality({s \in center_squares : is_attacked_by(b, WHITE, s)})
            - 10 * Cardinality({s \in center_squares : is_attacked_by(b, BLACK, s)})
        bishop_pair ==
            (IF Cardinality(pieces(b, BISHOP, WHITE)) >= 2 THEN 30 ELSE 0)
            - (IF Cardinality(pieces(b, BISHOP, BLACK)) >= 2 THEN 30 ELSE 0)
        tactical_bonus == center + bishop_pair
        evaluation == material_balance + positional_balance + mobility_score
                      + king_safety_balance + pawn_structure_score + tactical_bonus
    IN  IF white_king_safety.raised \/ black_king_safety.raised
        THEN [raised |-> TRUE, value |-> 0, board |-> mobility.board]
        ELSE [raised |-> FALSE, value |-> Perspective(b, evaluation),
              board |-> mobility.board])))

(***************************************************************************)
(* Part 3.  The engine (src/engine.py).  A call returns a record: raised   *)
(* (an exception left the call), its value, the board as the call left it  *)
(* and the number of positions it visited.  A for loop is the fold of its  *)
(* body over the moves; the fold is split in halves, which keeps the       *)
(* evaluation shallow, and a body that finds the loop left (break, return, *)
(* raise) passes the state on unchanged.                                   *)
(***************************************************************************)

\* float('inf')
Inf == 1000000000

\* None, as a move
NoMove == Move(NoSquare, NoSquare, NoPromotion)

\* The piece_values of order_moves
piece_values == <<100, 320, 330, 500, 900, 20000>>

\* order_moves's capture term: MVV-LVA when the destination holds a piece
CaptureTerm(b, move) ==
    IF is_capture(b, move)
       /\ occupied(b, move.to_square) /\ occupied(b, move.from_square)
    THEN piece_values[b.pcs[move.to_square].piece_type] * 10
         - piece_values[b.pcs[move.from_square].piece_type]
    ELSE 0

\* The board after move_priority's check probe: push, is_check, pop
CheckProbe(b, move) == pop(push(b, move))

\* order_moves.move_priority
move_priority(b, move) ==
    CaptureTerm(b, move)
    + (IF is_check(push(b, move)) THEN 50 ELSE 0)
    + (IF move.promotion # NoPromotion THEN 800 ELSE 0)
    + (IF is_castling(b, move) THEN 60 ELSE 0)
    + (IF move.to_square \in {E4, E5, D4, D5} THEN 20 ELSE 0)

\* The board after the key function has run on moves[lo .. hi]
RECURSIVE BoardAfterKeys(_, _, _, _)
BoardAfterKeys(b, moves, lo, hi) ==
    IF lo > hi THEN b
    ELSE IF lo = hi THEN CheckProbe(b, moves[lo])
    ELSE LET mid == (lo + hi) \div 2
             half == BoardAfterKeys(b, moves, lo, mid)
         IN  IF half.turn = b.turn THEN BoardAfterKeys(half, moves, mid + 1, hi)
             ELSE half

\* engine.order_moves: [moves, board].  sorted(..., reverse=True) lists by
\* priority, highest first, equal priorities in their original order
order_moves(b, moves) ==
    With({<<i, move_priority(b, moves[i])>> : i \in 1 .. Len(moves)}, LAMBDA keyed :
    LET before(q, p) == q[2] > p[2] \/ (q[2] = p[2] /\ q[1] < p[1])
        ranked == {<<Cardinality({q \in keyed : before(q, p)}) + 1, p[1]>> : p \in keyed}
    IN  [moves |-> [k \in 1 .. Len(moves) |-> moves[(CHOOSE r \in ranked : r[1] = k)[2]]],
         board |-> BoardAfterKeys(b, moves, 1, Len(moves))])

\* The moves quiescence_search looks at: captures and checks
TacticalMoves(b) ==
    LET tactical(move) == is_capture(b, move) \/ gives_check(b, move)
    IN  SelectSeq(legal_moves(b), tactical)

\* The quiescence recursion cap
QDEPTH_CAP == 10

\* A stand-pat test that fails high on every score up to beta
C11_FailsHighBelowBeta(stand_pat, beta) == stand_pat <= beta

\* if stand_pat >= beta: return beta
FailsHigh(stand_pat, beta) == stand_pat >= beta

\* What quiescence_search returns when there is no capture and no check
QuietValue(stand_pat, alpha) == stand_pat

\* The board a loop body continues with after the recursive call: board.pop()
UndoMove(b) == pop(b)

RECURSIVE quiescence_search(_, _, _, _)

\* The body of the for loop of quiescence_search; st.cut: it returned beta
QuiescenceStep(st, move, beta, depth) ==
    IF st.raised \/ st.cut THEN st
    ELSE
    With(quiescence_search(push(st.board, move), 0 - beta, 0 - st.alpha, depth + 1),
         LAMBDA r :
      IF r.raised
      THEN [st EXCEPT !.raised = TRUE, !.board = r.board, !.nodes = @ + r.nodes]
      ELSE [raised |-> FALSE, cut |-> 0 - r.value >= beta,
            board |-> UndoMove(r.board),
            alpha |-> Max(st.alpha, 0 - r.value), nodes |-> st.nodes + r.nodes])

RECURSIVE QuiescenceLoop(_, _, _, _, _, _)
QuiescenceLoop(st, moves, lo, hi, beta, depth) ==
    IF st.raised \/ st.cut \/ lo > hi THEN st
    ELSE IF lo = hi THEN QuiescenceStep(st, moves[lo], beta, depth)
    ELSE LET mid == (lo + hi) \div 2
         IN  QuiescenceLoop(QuiescenceLoop(st, moves, lo, mid, beta, depth),
                            moves, mid + 1, hi, beta, depth)

\* engine.quiescence_search
quiescence_search(b, alpha, beta, depth) ==
    With(evaluate_board(b), LAMBDA e :
      IF e.raised
      THEN [raised |-> TRUE, value |-> 0, board |-> e.board, nodes |-> 1]
      ELSE IF depth > QDEPTH_CAP
      THEN [raised |-> FALSE, value |-> e.value, board |-> e.board, nodes |-> 1]
      ELSE IF FailsHigh(e.value, beta)
      THEN [raised |-> FALSE, value |-> beta, board |-> e.board, nodes |-> 1]
      ELSE
      With(TacticalMoves(e.board), LAMBDA moves :
        IF Len(moves) = 0
        THEN [raised |-> FALSE, value |-> QuietValue(e.value, Max(alpha, e.value)),
              board |-> e.board, nodes |-> 1]
        ELSE
        With(order_moves(e.board, moves), LAMBDA ordered :
        With(QuiescenceLoop([raised |-> FALSE, cut |-> FALSE, board |-> ordered.board,
                             alpha |-> Max(alpha, e.value), nodes |-> 1],
                            ordered.moves, 1, Len(moves), beta, depth), LAMBDA end :
          [raised |-> end.raised,
           value |-> IF end.cut THEN beta ELSE end.alpha,
           board |-> end.board, nodes |-> end.nodes]))))

\* A loop that stops while the window is still open
C1_CutoffOpenWindow(alpha, beta) == alpha <= beta

\* Whether the loop of search stops after a move: beta <= alpha
Cutoff(alpha, beta) == beta <= alpha

RECURSIVE search(_, _, _, _, _)

\* The body of the for loop of search; st.best is max_eval / min_eval,
\* st.cut: the loop was left by break
SearchStep(st, move, depth, maximizing_player) ==
    IF st.raised \/ st.cut THEN st
    ELSE
    With(search(push(st.board, move), depth - 1, st.alpha, st.beta, ~maximizing_player),
         LAMBDA r :
    With(IF maximizing_player THEN Max(st.alpha, r.value) ELSE st.alpha, LAMBDA alpha :
    With(IF maximizing_player THEN st.beta ELSE Min(st.beta, r.value), LAMBDA beta :
      IF r.raised
      THEN [st EXCEPT !.raised = TRUE, !.board = r.board, !.nodes = @ + r.nodes]
      ELSE [raised |-> FALSE, cut |-> Cutoff(alpha, beta),
            board |-> UndoMove(r.board),
            best |-> IF maximizing_player THEN Max(st.best, r.value)
                     ELSE Min(st.best, r.value),
            alpha |-> alpha, beta |-> beta, nodes |-> st.nodes + r.nodes])))

RECURSIVE SearchLoop(_, _, _, _, _, _)
SearchLoop(st, moves, lo, hi, depth, maximizing_player) ==
    IF st.raised \/ st.cut \/ lo > hi THEN st
    ELSE IF lo = hi THEN SearchStep(st, moves[lo], depth, maximizing_player)
    ELSE LET mid == (lo + hi) \div 2
         IN  SearchLoop(SearchLoop(st, moves, lo, mid, depth, maximizing_player),
                        moves, mid + 1, hi, depth, maximizing_player)

\* engine.search
search(b, depth, alpha, beta, maximizing_player) ==
    IF is_game_over(b)
    THEN With(evaluate_board(b), LAMBDA e :
           [raised |-> e.raised, value |-> e.value, board |-> e.board, nodes |-> 1])
    ELSE IF depth = 0
    THEN quiescence_search(b, alpha, beta, 0)
    ELSE
    With(legal_moves(b), LAMBDA moves :
    IF Len(moves) = 0
    THEN With(evaluate_board(b), LAMBDA e :
           [raised |-> e.raised, value |-> e.value, board |-> e.board, nodes |-> 1])
    ELSE
    With(order_moves(b, moves), LAMBDA ordered :
    With(SearchLoop([raised |-> FALSE, cut |-> FALSE, board |-> ordered.board,
                     best |-> IF maximizing_player THEN 0 - Inf ELSE Inf,
                     alpha |-> alpha, beta |-> beta, nodes |-> 1],
                    ordered.moves, 1, Len(moves), depth, maximizing_player), LAMBDA end :
      [raised |-> end.raised, value |-> end.best, board |-> end.board,
       nodes |-> end.nodes])))

\* The role find_best_move hands to search for the position after a root move
RootChildRole == FALSE

\* Whether find_best_move prefers a score to the best so far
RootBetter(eval_score, max_eval) == eval_score > max_eval

\* The body of the for loop of find_best_move
RootStep(st, move, depth) ==
    IF st.raised THEN st
    ELSE
    With(search(push(st.board, move), depth - 1, st.alpha, Inf, RootChildRole),
         LAMBDA r :
      IF r.raised
      THEN [st EXCEPT !.raised = TRUE, !.board = r.board, !.nodes = @ + r.nodes]
      ELSE [raised |-> FALSE, board |-> UndoMove(r.board),
            max_eval |-> IF RootBetter(r.value, st.max_eval) THEN r.value ELSE st.max_eval,
            best_move |-> IF RootBetter(r.value, st.max_eval) THEN move ELSE st.best_move,
            alpha |-> Max(st.alpha, r.value), nodes |-> st.nodes + r.nodes])

RECURSIVE RootLoop(_, _, _, _, _)
RootLoop(st, moves, lo, hi, depth) ==
    IF st.raised \/ lo > hi THEN st
    ELSE IF lo = hi THEN RootStep(st, moves[lo], depth)
    ELSE LET mid == (lo + hi) \div 2
         IN  RootLoop(RootLoop(st, moves, lo, mid, depth), moves, mid + 1, hi, depth)

\* engine.find_best_move: [raised, move, value (max_eval), board, nodes]
find_best_move(b, depth) ==
    With(legal_moves(b), LAMBDA moves :
      IF Len(moves) = 0
      THEN [raised |-> FALSE, move |-> NoMove, value |-> 0 - Inf, board |-> b,
            nodes |-> 0]
      ELSE
      With(order_moves(b, moves), LAMBDA ordered :
      With(RootLoop([raised |-> FALSE, board |-> ordered.board,
                     max_eval |-> 0 - Inf, best_move |-> NoMove,
                     alpha |-> 0 - Inf, nodes |-> 0],
                    ordered.moves, 1, Len(moves), depth), LAMBDA end :
        [raised |-> end.raised,
         move |-> IF end.raised THEN NoMove ELSE end.best_move,
         value |-> end.max_eval, board |-> end.board, nodes |-> end.nodes])))

(***************************************************************************)
(* Part 4.  A caller of the engine.  It holds one board, calls one of the  *)
(* engine's functions on it and gets the result; iterative deepening runs  *)
(* depth by depth, and the clock may advance before each of its time       *)
(* checks.                                                                 *)
(***************************************************************************)

\* The deepest search the caller asks for
MaxDepth == 2
\* The latest reading of the clock (time.time() is 1 when the model starts)
MaxNow == 3
\* The largest time budget the caller supplies
MaxLimit == 1

\* time_limit=None, start_time=None
NoLimit == 0 - 1

\* Python's truth value of a time_limit or start_time: None and 0 are false
Truthy(t) == t # NoLimit /\ t # 0

\* A board with no history
MkBoard(pcs, turn) ==
    [pcs |-> pcs, turn |-> turn, castling_rights |-> {}, ep_square |-> NoSquare,
     halfmove_clock |-> 0, stack |-> <<>>]

\* The board after the moves have been played on it
RECURSIVE Played(_, _)
Played(b, ms) ==
    IF Len(ms) = 0 THEN b
    ELSE push(Played(b, SubSeq(ms, 1, Len(ms) - 1)), ms[Len(ms)])

plain(f, t) == Move(f, t, NoPromotion)

\* The positions the caller may hold
QueenEnPrise ==
    MkBoard((0 :> Piece(KING, WHITE)) @@ (28 :> Piece(PAWN, WHITE))
            @@ (63 :> Piece(KING, BLACK)) @@ (35 :> Piece(QUEEN, BLACK)), WHITE)
KingToEighth(turn) ==
    MkBoard((52 :> Piece(KING, WHITE)) @@ (15 :> Piece(PAWN, WHITE))
            @@ (0 :> Piece(KING, BLACK)), turn)
KingOnEighth ==
    MkBoard((60 :> Piece(KING, WHITE)) @@ (15 :> Piece(PAWN, WHITE))
            @@ (0 :> Piece(KING, BLACK)), WHITE)
Checkmated ==
    MkBoard((23 :> Piece(KING, WHITE)) @@ (60 :> Piece(ROOK, WHITE))
            @@ (63 :> Piece(KING, BLACK)) @@ (54 :> Piece(PAWN, BLACK))
            @@ (55 :> Piece(PAWN, BLACK)) @@ (0 :> Piece(QUEEN, BLACK)), BLACK)
Stalemated ==
    MkBoard((2 :> Piece(KING, WHITE)) @@ (41 :> Piece(QUEEN, WHITE))
            @@ (56 :> Piece(KING, BLACK)), BLACK)
BareKings ==
    MkBoard((28 :> Piece(KING, WHITE)) @@ (46 :> Piece(KING, BLACK)), WHITE)
PawnEnding(turn) ==
    MkBoard((6 :> Piece(KING, WHITE)) @@ (16 :> Piece(PAWN, WHITE))
            @@ (62 :> Piece(KING, BLACK)) @@ (48 :> Piece(PAWN, BLACK)), turn)
Repeated ==
    Played(PawnEnding(WHITE),
           <<plain(6, 7), plain(62, 63), plain(7, 6), plain(63, 62),
             plain(6, 7), plain(62, 63), plain(7, 6), plain(63, 62)>>)
\* Black has just played d7-d5 past the pawn on e5
PawnPassed ==
    Played(MkBoard((6 :> Piece(KING, WHITE)) @@ (36 :> Piece(PAWN, WHITE))
                   @@ (62 :> Piece(KING, BLACK)) @@ (51 :> Piece(PAWN, BLACK)),
                   BLACK),
           <<plain(51, 35)>>)

Positions ==
    {QueenEnPrise, KingToEighth(WHITE), KingToEighth(BLACK), KingOnEighth,
     Checkmated, Stalemated, BareKings, PawnEnding(WHITE), PawnEnding(BLACK),
     Repeated, PawnPassed}

VARIABLES
    board,    \* the chess.Board the caller holds
    pc,       \* where the caller is
    call,     \* the call made: its function and arguments
    ret,      \* what the call returned (or that it raised)
    ids,      \* the locals of iterative_deepening_search
    now,      \* time.time()
    board0    \* the board as it was when the call was made

vars == <<board, pc, call, ret, ids, now, board0>>

\* The scores a caller of quiescence_search bounds its window with
WindowBounds == {0 - Inf, 0 - 100, 0, 100, Inf}

NoCall == [api |-> "none", depth |-> 0, role |-> FALSE, limit |-> NoLimit,
           alpha |-> 0 - Inf, beta |-> Inf]
Result(raised, value, move, moves, nodes) ==
    [raised |-> raised, value |-> value, move |-> move, moves |-> moves,
     nodes |-> nodes]
\* The locals of iterative_deepening_search, and what the caller could see of
\* its run: the depths started, what each completed depth returned, the depth
\* that failed, the first depth started with the budget already exceeded
NoIds == [depth |-> 0, start_time |-> NoLimit, best_move |-> NoMove,
          started |-> <<>>, completed |-> <<>>, failed |-> 0, overdue |-> 0,
          called_at |-> 0]

Init ==
    /\ board \in Positions
    /\ pc = "idle"
    /\ call = NoCall
    /\ ret = Result(FALSE, 0, NoMove, <<>>, 0)
    /\ ids = NoIds
    /\ now = 1
    /\ board0 = board

\* The caller gets the result of a call that ran in one step
Returns(api, depth, role, after, result) ==
    /\ pc' = "returned"
    /\ call' = [NoCall EXCEPT !.api = api, !.depth = depth, !.role = role]
    /\ ret' = result
    /\ board' = after
    /\ board0' = board
    /\ UNCHANGED <<ids, now>>

\* evaluate_board(board)
CallEvaluateBoard ==
    /\ pc = "idle"
    /\ With(evaluate_board(board), LAMBDA e :
         Returns("evaluate_board", 0, FALSE, e.board,
                 Result(e.raised, e.value, NoMove, <<>>, 1)))

\* evaluate_king_safety(board, color)
CallEvaluateKingSafety ==
    /\ pc = "idle"
    /\ \E color \in {WHITE, BLACK} :
          With(evaluate_king_safety(board, color), LAMBDA k :
            Returns("evaluate_king_safety", 0, color, board,
                    Result(k.raised, k.value, NoMove, <<>>, 0)))

\* order_moves(board, list(board.legal_moves))
CallOrderMoves ==
    /\ pc = "idle"
    /\ With(order_moves(board, legal_moves(board)), LAMBDA o :
         Returns("order_moves", 0, FALSE, o.board,
                 Result(FALSE, 0, NoMove, o.moves, 0)))

\* quiescence_search(board, alpha, beta)
CallQuiescenceSearch ==
    /\ pc = "idle"
    /\ \E alpha \in WindowBounds, beta \in WindowBounds :
          /\ alpha < beta
          /\ With(quiescence_search(board, alpha, beta, 0), LAMBDA q :
                /\ pc' = "returned"
                /\ call' = [NoCall EXCEPT !.api = "quiescence_search",
                                          !.alpha = alpha, !.beta = beta]
                /\ ret' = Result(q.raised, q.value, NoMove, <<>>, q.nodes)
                /\ board' = q.board
                /\ board0' = board
                /\ UNCHANGED <<ids, now>>)

\* search(board, depth, -inf, +inf, maximizing_player)
CallSearch ==
    /\ pc = "idle"
    /\ \E depth \in 0 .. MaxDepth, maximizing_player \in BOOLEAN :
          With(search(board, depth, 0 - Inf, Inf, maximizing_player), LAMBDA s :
            Returns("search", depth, maximizing_player, s.board,
                    Result(s.raised, s.value, NoMove, <<>>, s.nodes)))

\* find_best_move(board, depth)
CallFindBestMove ==
    /\ pc = "idle"
    /\ \E depth \in 1 .. MaxDepth :
          With(find_best_move(board, depth), LAMBDA f :
            Returns("find_best_move", depth, FALSE, f.board,
                    Result(f.raised, f.value, f.move, <<>>, f.nodes)))

\* iterative_deepening_search(board, max_depth, time_limit) is entered:
\* start_time = time.time() if time_limit else None; best_move = None
CallIterativeDeepening ==
    /\ pc = "idle"
    /\ \E max_depth \in 0 .. MaxDepth, time_limit \in {NoLimit} \cup (0 .. MaxLimit) :
          /\ call' = [NoCall EXCEPT !.api = "iterative_deepening_search",
                                    !.depth = max_depth, !.limit = time_limit]
          /\ ids' = [depth |-> 1,
                     start_time |-> IF Truthy(time_limit) THEN now ELSE NoLimit,
                     best_move |-> NoMove, started |-> <<>>, completed |-> <<>>,
                     failed |-> 0, overdue |-> 0, called_at |-> now]
    /\ pc' = "ids_loop"
    /\ board0' = board
    /\ UNCHANGED <<board, ret, now>>

\* Time passes
Tick ==
    /\ pc = "ids_loop"
    /\ call.limit # NoLimit
    /\ now < MaxNow
    /\ now' = now + 1
    /\ UNCHANGED <<board, pc, call, ret, ids, board0>>

\* Whether the time check before a depth leaves the loop
OutOfTime(time_limit, start_time, t) ==
    Truthy(time_limit) /\ Truthy(start_time) /\ t - start_time > time_limit

\* for depth in range(1, max_depth + 1), and the time check
IDSLoopHead ==
    /\ pc = "ids_loop"
    /\ pc' = IF ids.depth > call.depth \/ OutOfTime(call.limit, ids.start_time, now)
             THEN "ids_return" ELSE "ids_try"
    /\ ids' = [ids EXCEPT !.overdue =
                 IF /\ @ = 0
                    /\ ids.depth <= call.depth
                    /\ ~OutOfTime(call.limit, ids.start_time, now)
                    /\ call.limit # NoLimit
                    /\ now - ids.called_at > call.limit
                 THEN ids.depth ELSE @]
    /\ UNCHANGED <<board, call, ret, now, board0>>

\* A loop that keeps a depth's result only when there is none
C7_RetainedInverted(best_move, current_best) ==
    IF current_best # NoMove THEN best_move ELSE current_best

\* if current_best: best_move = current_best
Retained(best_move, current_best) ==
    IF current_best # NoMove THEN current_best ELSE best_move

\* try: current_best = find_best_move(board, depth) ... except: break
IDSTry ==
    /\ pc = "ids_try"
    /\ With(find_best_move(board, ids.depth), LAMBDA f :
         /\ board' = f.board
         /\ pc' = IF f.raised THEN "ids_return" ELSE "ids_loop"
         /\ ids' = [ids EXCEPT
                      !.started = Append(@, ids.depth),
                      !.completed = IF f.raised THEN @ ELSE Append(@, f.move),
                      !.failed = IF f.raised THEN ids.depth ELSE @,
                      !.best_move = IF f.raised THEN @ ELSE Retained(@, f.move),
                      !.depth = IF f.raised THEN @ ELSE @ + 1])
    /\ UNCHANGED <<call, ret, now, board0>>

\* return best_move or list(board.legal_moves)[0]
IDSReturn ==
    /\ pc = "ids_return"
    /\ With(legal_moves(board), LAMBDA moves :
         ret' = IF ids.best_move # NoMove
                THEN Result(FALSE, 0, ids.best_move, <<>>, 0)
                ELSE IF Len(moves) = 0
                THEN Result(TRUE, 0, NoMove, <<>>, 0)
                ELSE Result(FALSE, 0, moves[1], <<>>, 0))
    /\ pc' = "returned"
    /\ UNCHANGED <<board, call, ids, now, board0>>

Next ==
    \/ CallEvaluateBoard
    \/ CallEvaluateKingSafety
    \/ CallOrderMoves
    \/ CallQuiescenceSearch
    \/ CallSearch
    \/ CallFindBestMove
    \/ CallIterativeDeepening
    \/ Tick
    \/ IDSLoopHead
    \/ IDSTry
    \/ IDSReturn

Spec == Init /\ [][Next]_vars

(***************************************************************************)
(* Part 5.  What the specification says of the engine, stated over the     *)
(* caller's state.  board0 is the position as it was when the call was     *)
(* made, board the position as the call left it.                           *)
(***************************************************************************)

\* The call made was to this function, and it is over
Returned(api) == pc = "returned" /\ call.api = api

\* The legal-move set of the position the call was made on
LegalAtCall == LegalMoveSet(board0)

\* The full minimax expansion, nothing pruned: the leaves are the positions
\* where the game is over (evaluate_board) and those at depth 0 (the
\* quiescence value); [raised, value, nodes]
RECURSIVE Minimax(_, _, _)
Minimax(b, depth, maximizing_player) ==
    IF is_game_over(b)
    THEN With(evaluate_board(b), LAMBDA e :
           [raised |-> e.raised, value |-> e.value, nodes |-> 1])
    ELSE IF depth = 0
    THEN With(quiescence_search(b, 0 - Inf, Inf, 0), LAMBDA q :
           [raised |-> q.raised, value |-> q.value, nodes |-> q.nodes])
    ELSE
    With({<<m, Minimax(push(b, m), depth - 1, ~maximizing_player)>> : m \in LegalMoveSet(b)},
         LAMBDA children :
    With({c[2].value : c \in children}, LAMBDA values :
      [raised |-> \E c \in children : c[2].raised,
       value |-> IF maximizing_player
                 THEN CHOOSE v \in values : \A w \in values : w <= v
                 ELSE CHOOSE v \in values : \A w \in values : v <= w,
       nodes |-> 1 + SumOver({c[1] : c \in children},
                             [m \in {c[1] : c \in children} |->
                                (CHOOSE c \in children : c[1] = m)[2].nodes])]))

\* C1: search with alpha-beta pruning, called with the full window, returns
\* the value of the unpruned minimax expansion of the same tree, for every
\* position, depth and role (where both come to a value)
C1_PruningKeepsValue ==
    (Returned("search") /\ ~ret.raised) =>
        With(Minimax(board0, call.depth, call.role), LAMBDA m :
          ~m.raised => ret.value = m.value)

\* A search that visited fewer positions than the full expansion has
C1_PrunedSearch ==
    /\ Returned("search")
    /\ ~ret.raised
    /\ call.depth >= 1
    /\ With(Minimax(board0, call.depth, call.role), LAMBDA m :
         ~m.raised /\ ret.nodes < m.nodes /\ ret.value = m.value)

\* C2: after any call of the six functions that returns normally the
\* position, its move stack included, is what it was before the call
C2_NormalReturnRestores ==
    (pc = "returned" /\ ~ret.raised) => board = board0

\* C3: when a fault inside one depth of iterative_deepening_search has been
\* recovered, the position is back in its pre-call state at the return
C3_RecoveredFaultRestores ==
    (Returned("iterative_deepening_search") /\ ids.failed # 0) => board = board0

\* C4: the move find_best_move or iterative_deepening_search returns is a
\* legal move of the position the call was made on, and find_best_move
\* returns None exactly when that position has no legal move
C4_ReturnedMoveLegal ==
    /\ (Returned("find_best_move") /\ ~ret.raised) =>
          IF LegalAtCall = {} THEN ret.move = NoMove ELSE ret.move \in LegalAtCall
    /\ (Returned("iterative_deepening_search") /\ call.depth >= 1 /\ ~ret.raised) =>
          ret.move \in LegalAtCall

\* The captures of an undefended enemy queen by a pawn
PawnTakesLooseQueen(b) ==
    {m \in LegalMoveSet(b) :
        /\ b.pcs[m.from_square].piece_type = PAWN
        /\ occupied(b, m.to_square)
        /\ b.pcs[m.to_square] = Piece(QUEEN, ~b.turn)
        /\ ~is_attacked_by(push(b, m), ~b.turn, m.to_square)}

\* C5: where the side to move can take an undefended queen with a pawn,
\* find_best_move returns that capture, at every depth from 1
C5_TakesTheQueen ==
    (Returned("find_best_move") /\ ~ret.raised /\ PawnTakesLooseQueen(board0) # {}) =>
        ret.move \in PawnTakesLooseQueen(board0)

\* C6: when iterative_deepening_search has retained no move it returns a
\* legal move of the position if there is one and None if there is none,
\* and raises nothing
C6_FallbackNeverFails ==
    (Returned("iterative_deepening_search") /\ ids.best_move = NoMove) =>
        /\ ~ret.raised
        /\ IF LegalAtCall = {} THEN ret.move = NoMove ELSE ret.move \in LegalAtCall

\* C7: when depth d of iterative_deepening_search fails after depths 1 .. d-1
\* completed, no deeper depth is started, and the call returns the move the
\* deepest completed depth returned
C7_FailureKeepsLastResult ==
    (Returned("iterative_deepening_search") /\ ids.failed # 0) =>
        /\ Len(ids.started) = ids.failed
        /\ \A i \in 1 .. Len(ids.started) : ids.started[i] = i
        /\ Len(ids.completed) = ids.failed - 1
        /\ \A i \in 1 .. Len(ids.completed) :
              (i = ids.failed - 1 /\ ids.completed[i] # NoMove) =>
                  ~ret.raised /\ ret.move = ids.completed[i]

\* A run whose second depth failed and which returned the first depth's move
C7_SecondDepthFailed ==
    /\ Returned("iterative_deepening_search")
    /\ ids.failed = 2
    /\ ids.completed[1] # NoMove
    /\ ret.move = ids.completed[1]

\* C8: for every budget supplied, 0 included, no depth is started at a
\* boundary where the time elapsed since the call exceeds the budget
C8_BudgetStopsDeepening ==
    call.api = "iterative_deepening_search" => ids.overdue = 0

\* The same situation seen from the other colour: ranks mirrored, colours
\* and the side to move swapped
MirrorSquare(s) == IF s = NoSquare THEN NoSquare ELSE square(square_file(s), 7 - square_rank(s))
MirrorMove(m) ==
    IF m = NullMove THEN m
    ELSE Move(MirrorSquare(m.from_square), MirrorSquare(m.to_square), m.promotion)
MirrorState(st) ==
    [pcs |-> [s \in {MirrorSquare(t) : t \in DOMAIN st.pcs} |->
                Piece(st.pcs[MirrorSquare(s)].piece_type, ~st.pcs[MirrorSquare(s)].color)],
     turn |-> ~st.turn,
     castling_rights |-> {MirrorSquare(s) : s \in st.castling_rights},
     ep_square |-> MirrorSquare(st.ep_square),
     halfmove_clock |-> st.halfmove_clock]
RECURSIVE MirrorStack(_)
MirrorStack(stack) ==
    IF Len(stack) = 0 THEN <<>>
    ELSE Append(MirrorStack(SubSeq(stack, 1, Len(stack) - 1)),
                [move |-> MirrorMove(stack[Len(stack)].move),
                 state |-> MirrorState(stack[Len(stack)].state)])
Mirror(b) ==
    [pcs |-> MirrorState(b).pcs, turn |-> ~b.turn,
     castling_rights |-> MirrorState(b).castling_rights,
     ep_square |-> MirrorSquare(b.ep_square),
     halfmove_clock |-> b.halfmove_clock, stack |-> MirrorStack(b.stack)]

\* C9: evaluate_board scores a position that is not terminal as it scores
\* the same situation seen from the other colour
C9_MirrorSymmetric ==
    (/\ Returned("evaluate_board")
     /\ ~ret.raised
     /\ ~is_checkmate(board0)
     /\ ~(is_stalemate(board0) \/ is_insufficient_material(board0)
          \/ is_repetition(board0, 3))) =>
        With(evaluate_board(Mirror(board0)), LAMBDA mirrored :
          ~mirrored.raised => mirrored.value = ret.value)

\* C10: evaluate_board scores a checkmated side to move -999999 and a
\* stalemate, insufficient material or a repetition exactly 0, whatever the
\* other terms would give
C10_TerminalFirst ==
    Returned("evaluate_board") =>
        /\ is_checkmate(board0) => ~ret.raised /\ ret.value = 0 - MATE_SCORE
        /\ (/\ ~is_checkmate(board0)
            /\ (is_stalemate(board0) \/ is_insufficient_material(board0)
                \/ is_repetition(board0, 3))) => ~ret.raised /\ ret.value = 0

\* A checkmated position with unequal material, scored
C10_CheckmateScored ==
    /\ Returned("evaluate_board")
    /\ is_checkmate(board0)
    /\ count_material(board0, WHITE) # count_material(board0, BLACK)
    /\ ret.value = 0 - MATE_SCORE

\* The legal moves of the position hold no capture and no check-giving move
Quiet(b) == \A m \in LegalMoveSet(b) : ~is_capture(b, m) /\ ~gives_check(b, m)

\* The call was quiescence_search(board, -inf, +inf), and it is over
ReturnedFullWindow ==
    Returned("quiescence_search") /\ call.alpha = 0 - Inf /\ call.beta = Inf

\* C11: pure stand-pat.  On a position whose legal moves hold no capture and
\* no check-giving move, quiescence_search(position, -inf, +inf, 0) returns
\* exactly what evaluate_board(position) returns.
C11_PureStandPat ==
    (ReturnedFullWindow /\ Quiet(board0))
    => With(evaluate_board(board0), LAMBDA e :
         /\ ret.raised = e.raised
         /\ ~e.raised => ret.value = e.value)

\* C11's case: the quiescence value of a quiet position that has legal moves
\* and a score other than zero
C11_QuietPositionSearched ==
    /\ ReturnedFullWindow
    /\ Quiet(board0)
    /\ LegalAtCall # {}
    /\ ~ret.raised
    /\ ret.value # 0

\* C12: quiescence with no tactical moves returns alpha.  For a window
\* alpha < beta at depth 0, when the stand-pat score is below beta and the
\* position has no capture and no check-giving move, quiescence_search returns
\* the alpha it has after the stand-pat raise, max(alpha, stand_pat), also
\* when stand_pat is below the alpha it was called with.
C12_QuietReturnsAlpha ==
    (Returned("quiescence_search") /\ Quiet(board0) /\ call.alpha < call.beta)
    => With(evaluate_board(board0), LAMBDA e :
         (~e.raised /\ e.value < call.beta)
         => (~ret.raised /\ ret.value = Max(call.alpha, e.value)))

\* The king of this colour is attacked by the other colour
InCheck(b, color) ==
    king(b, color) # NoSquare /\ is_attacked_by(b, ~color, king(b, color))

\* The castling and pawn-shield bonuses of a colour: 50 and 30 for the rights
\* to castle king side and queen side, 30 for each own pawn on a square of
\* the board next to the king's file, one rank ahead of the king
KingBonuses(b, color) ==
    (IF has_kingside_castling_rights(b, color) THEN 50 ELSE 0)
    + (IF has_queenside_castling_rights(b, color) THEN 30 ELSE 0)
    + 30 * Cardinality({s \in Squares :
             /\ Abs(square_file(s) - square_file(king(b, color))) <= 1
             /\ square_rank(s) = square_rank(king(b, color))
                                 + (IF color = WHITE THEN 1 ELSE 0 - 1)
             /\ occupied(b, s) /\ b.pcs[s] = Piece(PAWN, color)})

\* C13: the king-safety check penalty is per side.  evaluate_king_safety takes
\* 50 points from a colour exactly when that colour's own king is in check, so
\* with the side to move in check the balance (first-side safety minus
\* second-side safety) is 50 worse for the checked side than the balance of
\* the castling and pawn-shield bonuses alone.
C13_CheckPenaltyPerSide ==
    (Returned("evaluate_king_safety") /\ ~ret.raised)
    => /\ ret.value = KingBonuses(board0, call.role)
                      - (IF InCheck(board0, call.role) THEN 50 ELSE 0)
       /\ With(evaluate_king_safety(board0, WHITE), LAMBDA first :
          With(evaluate_king_safety(board0, BLACK), LAMBDA second :
            (is_check(board0) /\ ~first.raised /\ ~second.raised)
            => (first.value - second.value
                = KingBonuses(board0, WHITE) - KingBonuses(board0, BLACK)
                  + (IF board0.turn = WHITE THEN 0 - 50 ELSE 50))))

\* The priority the specification gives a move: victim * 10 - attacker for
\* every capture (the victim of an en passant capture is a pawn), 50 for a
\* check, 800 for a promotion, 60 for a castle, 20 for a centre destination
SpecPriority(b, move) ==
    (IF is_capture(b, move)
     THEN piece_values[IF is_en_passant(b, move) THEN PAWN
                       ELSE b.pcs[move.to_square].piece_type] * 10
          - piece_values[b.pcs[move.from_square].piece_type]
     ELSE 0)
    + (IF gives_check(b, move) THEN 50 ELSE 0)
    + (IF move.promotion # NoPromotion THEN 800 ELSE 0)
    + (IF is_castling(b, move) THEN 60 ELSE 0)
    + (IF move.to_square \in {D4, D5, E4, E5} THEN 20 ELSE 0)

\* C14: order_moves priority.  The key order_moves sorts every move by is
\* the sum of the MVV-LVA term for every capture (en passant included), 50
\* for a check, 800 for a promotion, 60 for a castle and 20 for a centre
\* destination, and the output lists the moves by non-increasing priority.
C14_OrderedBySpecPriority ==
    Returned("order_moves")
    => /\ \A i \in 1 .. Len(ret.moves) :
            move_priority(board0, ret.moves[i]) = SpecPriority(board0, ret.moves[i])
       /\ \A i \in 1 .. Len(ret.moves), j \in 1 .. Len(ret.moves) :
            i < j => SpecPriority(board0, ret.moves[i])
                     >= SpecPriority(board0, ret.moves[j])

\* C15: the evaluator is total.  Wherever the two kings stand, evaluate_board
\* returns a score without raising a fault, and every pawn-shield square
\* evaluate_king_safety examines lies on the board (file 0..7, rank 0..7), on
\* the rank in front of that side's own king.
C15_EvaluatorTotal ==
    Returned("evaluate_board")
    => /\ ~ret.raised
       /\ (~is_checkmate(board0) /\ ~is_stalemate(board0)
           /\ ~is_insufficient_material(board0) /\ ~is_repetition(board0, 3))
          => \A color \in {WHITE, BLACK} : \A s \in ShieldSquares(board0, color) :
                /\ s \in Squares
                /\ square_rank(s) = square_rank(king(board0, color))
                                    + (IF color = WHITE THEN 1 ELSE 0 - 1)

=============================================================================
